---- MODULE Spec2Model ----
(***************************************************************************)
(* Model of cwichel/fpsensor: the API definitions of fpsensor/api.py (the  *)
(* enumerated code tables, the baud-rate and packet-size conversions, the  *)
(* 16-byte system parameters block) and the enrollment workflow of         *)
(* examples/ex_enroll.py.                                                  *)
(*                                                                         *)
(* Four specifications share the module's variables; each one leaves the   *)
(* variables of the other three at their idle values:                      *)
(*   SpecConv    FpBaudrate / FpPacketSize to_int and from_int             *)
(*   SpecParams  FpSystemParameters.serialize / deserialize                *)
(*   SpecEnroll  example(sdk), the enrollment workflow                     *)
(*   SpecError   the FpError code table and the lookup of a status byte    *)
(***************************************************************************)
EXTENDS Integers, Sequences, FiniteSets, TLC

VARIABLES
    cv_arg,     \* SpecConv: the integer the first conversion is applied to
    cv_val,     \* SpecConv: outcome of the last conversion (value or raise)
    cv_ops,     \* SpecConv: the conversions applied so far, in order
    sp_pc,      \* SpecParams: "params" | "buffer" | "serialized" | "raised" | "deserialized"
    sp_p,       \* SpecParams: the FpSystemParameters being serialized
    sp_data,    \* SpecParams: the byte buffer (input of deserialize)
    sp_ser,     \* SpecParams: outcome of serialize
    sp_des,     \* SpecParams: outcome of deserialize
    pc,         \* SpecEnroll: position of example() (source line label)
    tries,      \* SpecEnroll: local variable tries
    buffer,     \* SpecEnroll: local variable buffer (1 = BUFFER_1, 2 = BUFFER_2)
    recv,       \* SpecEnroll: local variable recv, the last response
    ops,        \* SpecEnroll: history, the sdk operations issued, in order
    info,       \* SpecEnroll: message of the exception caught at line 87, "" if none
    printed,    \* SpecEnroll: history, the lines printed
    convFails,  \* SpecEnroll: history, number of failed image_convert responses
    matchFails, \* SpecEnroll: history, number of failed match_1_1 responses
    er_code,    \* SpecError: the status byte received
    er_pc,      \* SpecError: "received" | "decoded"
    er_member,  \* SpecError: the FpError member the byte decodes to ("" if none)
    er_names    \* SpecError: every FpError name defined with the byte's value

convVars == <<cv_arg, cv_val, cv_ops>>
parVars  == <<sp_pc, sp_p, sp_data, sp_ser, sp_des>>
enrVars  == <<pc, tries, buffer, recv, ops, info, printed, convFails, matchFails>>
errVars  == <<er_code, er_pc, er_member, er_names>>
vars     == <<convVars, parVars, enrVars, errVars>>

(***************************************************************************)
(* Python outcomes: a returned integer, or a raised exception.             *)
(***************************************************************************)
Ok(v)    == [kind |-> "ok", val |-> v, err |-> ""]
Raise(e) == [kind |-> "raise", val |-> 0, err |-> e]

(***************************************************************************)
(* Enumerations (IntEnumMod): the set of member values of each class.      *)
(***************************************************************************)
FpBaudrateValues   == {1, 2, 3, 4, 5, 6, 7, 8, 9, 10, 11, 12}
FpSecurityValues   == {1, 2, 3, 4, 5}
FpPacketSizeValues == {0, 1, 2, 3}

\* IntEnumMod.has_value(value): value is the value of a member of the class.
has_value(cls, value) == value \in cls

RECURSIVE Pow2(_)
Pow2(n) == IF n <= 0 THEN 1 ELSE 2 * Pow2(n - 1)

\* int(math.log2(x)) for x >= 1: the floor of the binary logarithm.
RECURSIVE IntLog2(_)
IntLog2(x) == IF x <= 1 THEN 0 ELSE 1 + IntLog2(x \div 2)

\* math.log2(x) raises ValueError (math domain error) for x <= 0.
log2_int(x) == IF x <= 0 THEN Raise("ValueError") ELSE Ok(IntLog2(x))

(***************************************************************************)
(* FpBaudrate                                                              *)
(***************************************************************************)
BaudRateUnit == 9600

FpBaudrate_to_int(self) == self * BaudRateUnit

\* A slip that would leave out the division fallback.
FpBaudrate_from_int_exact_only(value) ==
    IF has_value(FpBaudrateValues, value)
    THEN Ok(value)
    ELSE Raise("ValueError")

FpBaudrate_from_int(value) ==
    IF has_value(FpBaudrateValues, value)
    THEN Ok(value)
    ELSE LET val == value \div BaudRateUnit
         IN  IF has_value(FpBaudrateValues, val)
             THEN Ok(val)
             ELSE Raise("ValueError")

(***************************************************************************)
(* FpPacketSize                                                            *)
(***************************************************************************)
PacketSizeBase == 32
PacketSizeShift == 5

FpPacketSize_to_int(self) == PacketSizeBase * Pow2(self)

\* value >> 5 on a Python int is the floor of value / 32.
ShiftRight5(value) == value \div Pow2(PacketSizeShift)

\* A slip that would shift by one bit less.
FpPacketSize_from_int_shift4(value) ==
    IF has_value(FpPacketSizeValues, value)
    THEN Ok(value)
    ELSE LET lg == log2_int(value \div Pow2(PacketSizeShift - 1))
         IN  IF lg.kind = "raise"
             THEN lg
             ELSE IF has_value(FpPacketSizeValues, lg.val)
                  THEN Ok(lg.val)
                  ELSE Raise("ValueError")

FpPacketSize_from_int(value) ==
    IF has_value(FpPacketSizeValues, value)
    THEN Ok(value)
    ELSE LET lg == log2_int(ShiftRight5(value))
         IN  IF lg.kind = "raise"
             THEN lg
             ELSE IF has_value(FpPacketSizeValues, lg.val)
                  THEN Ok(lg.val)
                  ELSE Raise("ValueError")

(***************************************************************************)
(* Idle values of each specification's variables.                          *)
(***************************************************************************)
NoParams == [status |-> 0, id |-> 0, address |-> 0, capacity |-> 0,
             packet |-> 0, security |-> 0, baudrate |-> 0]
NoSer    == [kind |-> "none", bytes |-> <<>>, err |-> ""]
NoDes    == [kind |-> "none", val |-> NoParams, err |-> ""]
NoRecv   == [succ |-> TRUE, index |-> 0, value |-> 0]

IdleConv   == cv_arg = 0 /\ cv_val = Ok(0) /\ cv_ops = <<>>
IdleParams == sp_pc = "idle" /\ sp_p = NoParams /\ sp_data = <<>>
              /\ sp_ser = NoSer /\ sp_des = NoDes
IdleEnroll == pc = "idle" /\ tries = 0 /\ buffer = 1 /\ recv = NoRecv
              /\ ops = <<>> /\ info = "" /\ printed = <<>>
              /\ convFails = 0 /\ matchFails = 0
IdleError  == er_code = 0 /\ er_pc = "idle" /\ er_member = "" /\ er_names = {}

(***************************************************************************)
(* SpecConv: the conversions applied to an integer, one after the other.   *)
(***************************************************************************)
MaxInput == 300
MaxCalls == 2

\* Integers handed to from_int: small values around the codes and the packet
\* sizes, negative values, and raw baud rates on and off the 9600 grid.
ConvInputs ==
    (-40 .. MaxInput)
    \cup {k * BaudRateUnit : k \in 0 .. 14}
    \cup {k * BaudRateUnit + 1 : k \in 0 .. 13}
    \cup {k * BaudRateUnit - 1 : k \in 1 .. 14}
    \cup {100000, 1000000, -9600}

InitConv ==
    /\ cv_arg \in ConvInputs
    /\ cv_val = Ok(cv_arg)
    /\ cv_ops = <<>>
    /\ IdleParams /\ IdleEnroll /\ IdleError

CanCall == cv_val.kind = "ok" /\ Len(cv_ops) < MaxCalls

BaudToInt ==
    /\ CanCall
    /\ cv_val.val \in FpBaudrateValues
    /\ cv_val' = Ok(FpBaudrate_to_int(cv_val.val))
    /\ cv_ops' = Append(cv_ops, "baud_to_int")
    /\ UNCHANGED <<cv_arg, parVars, enrVars, errVars>>

BaudFromInt ==
    /\ CanCall
    /\ cv_val' = FpBaudrate_from_int(cv_val.val)
    /\ cv_ops' = Append(cv_ops, "baud_from_int")
    /\ UNCHANGED <<cv_arg, parVars, enrVars, errVars>>

PacketToInt ==
    /\ CanCall
    /\ cv_val.val \in FpPacketSizeValues
    /\ cv_val' = Ok(FpPacketSize_to_int(cv_val.val))
    /\ cv_ops' = Append(cv_ops, "packet_to_int")
    /\ UNCHANGED <<cv_arg, parVars, enrVars, errVars>>

PacketFromInt ==
    /\ CanCall
    /\ cv_val' = FpPacketSize_from_int(cv_val.val)
    /\ cv_ops' = Append(cv_ops, "packet_from_int")
    /\ UNCHANGED <<cv_arg, parVars, enrVars, errVars>>

NextConv == BaudToInt \/ BaudFromInt \/ PacketToInt \/ PacketFromInt

SpecConv == InitConv /\ [][NextConv]_vars

(***************************************************************************)
(* Claims about the conversions.                                           *)
(***************************************************************************)

\* C3: FpBaudrate.from_int(value) raises for every integer that is neither a
\* baud code (1..12) nor 9600*k for k in 1..12; in particular for 100000.
C3_FromIntRejectsOffGrid ==
    (cv_ops = <<"baud_from_int">>
        /\ cv_arg \notin (1 .. 12)
        /\ cv_arg \notin {9600 * k : k \in 1 .. 12})
    => cv_val.kind = "raise"

\* C4: FpPacketSize.from_int(value) raises for every integer that is neither
\* a packet-size code (0..3) nor one of 32, 64, 128, 256; in particular 100.
C4_FromIntRejectsOtherSizes ==
    (cv_ops = <<"packet_from_int">>
        /\ cv_arg \notin (0 .. 3)
        /\ cv_arg \notin {32, 64, 128, 256})
    => cv_val.kind = "raise"

\* C6: for every baud code c in 1..12, to_int(c) = c*9600 and
\* from_int(to_int(c)) returns c.
C6_BaudRoundTrip ==
    /\ (cv_ops = <<"baud_to_int">> /\ cv_arg \in 1 .. 12)
        => (cv_val.kind = "ok" /\ cv_val.val = cv_arg * 9600)
    /\ (cv_ops = <<"baud_to_int", "baud_from_int">> /\ cv_arg \in 1 .. 12)
        => (cv_val.kind = "ok" /\ cv_val.val = cv_arg)

C6_Witness ==
    /\ cv_ops = <<"baud_to_int", "baud_from_int">>
    /\ cv_arg = 12
    /\ cv_val.kind = "ok" /\ cv_val.val = 12

\* C7: for every packet-size code c in 0..3, to_int(c) = 32*2^c and
\* from_int(to_int(c)) returns c.
C7_PacketRoundTrip ==
    /\ (cv_ops = <<"packet_to_int">> /\ cv_arg \in 0 .. 3)
        => (cv_val.kind = "ok"
            /\ cv_val.val = CASE cv_arg = 0 -> 32 [] cv_arg = 1 -> 64
                              [] cv_arg = 2 -> 128 [] cv_arg = 3 -> 256)
    /\ (cv_ops = <<"packet_to_int", "packet_from_int">> /\ cv_arg \in 0 .. 3)
        => (cv_val.kind = "ok" /\ cv_val.val = cv_arg)

C7_Witness ==
    /\ cv_ops = <<"packet_to_int", "packet_from_int">>
    /\ cv_arg = 3
    /\ cv_val.kind = "ok" /\ cv_val.val = 3

(***************************************************************************)
(* Utilities: to_bytes / from_bytes (big-endian, unsigned).                *)
(***************************************************************************)
RECURSIVE ShiftBytes(_, _)
ShiftBytes(value, n) == IF n = 0 THEN value ELSE ShiftBytes(value \div 256, n - 1)

RECURSIVE BigEndian(_, _)
BigEndian(value, size) ==
    IF size = 0 THEN <<>>
    ELSE Append(BigEndian(value \div 256, size - 1), value % 256)

\* int.to_bytes(length=size, byteorder='big', signed=False): OverflowError
\* for a negative value or one that does not fit in size bytes.
to_bytes(value, size) ==
    IF value < 0 \/ ShiftBytes(value, size) # 0
    THEN [kind |-> "raise", bytes |-> <<>>, err |-> "OverflowError"]
    ELSE [kind |-> "ok", bytes |-> BigEndian(value, size), err |-> ""]

RECURSIVE from_bytes(_)
from_bytes(data) ==
    IF data = <<>> THEN 0
    ELSE 256 * from_bytes(SubSeq(data, 1, Len(data) - 1)) + data[Len(data)]

\* The Python slice data[a:b] of a sequence.
Slice(data, a, b) ==
    SubSeq(data, a + 1, IF b < Len(data) THEN b ELSE Len(data))

\* Calling an enumeration class on a value: ValueError unless it is a member.
EnumNew(cls, value) ==
    IF has_value(cls, value) THEN Ok(value) ELSE Raise("ValueError")

(***************************************************************************)
(* FpSystemParameters                                                      *)
(***************************************************************************)
LENGTH == 16

\* The parts serialize concatenates, in order, each with its size argument.
SerializeParts(p) ==
    << to_bytes(p.status, 2),
       to_bytes(p.id, 2),
       to_bytes(p.capacity, 2),
       to_bytes(p.security, 2),
       to_bytes(p.address, 2),
       to_bytes(p.packet, 2),
       to_bytes(p.baudrate, 2) >>

RECURSIVE Concat(_)
Concat(parts) ==
    IF parts = <<>> THEN <<>>
    ELSE Head(parts).bytes \o Concat(Tail(parts))

serialize(p) ==
    LET parts == SerializeParts(p)
    IN  IF \E i \in DOMAIN parts : parts[i].kind = "raise"
        THEN [kind |-> "raise", bytes |-> <<>>, err |-> "OverflowError"]
        ELSE [kind |-> "ok", bytes |-> Concat(parts), err |-> ""]

DesNone     == [kind |-> "None", val |-> NoParams, err |-> ""]
DesRaise(e) == [kind |-> "raise", val |-> NoParams, err |-> e]

\* The construction of the result (lines 348-356): the three enumeration
\* classes are called on the decoded fields.
BuildParameters(stat, id, cap, sec, addr, pack, baud) ==
    LET s == EnumNew(FpSecurityValues, sec)
        k == EnumNew(FpPacketSizeValues, pack)
        b == EnumNew(FpBaudrateValues, baud)
    IN  IF s.kind = "raise" \/ k.kind = "raise" \/ b.kind = "raise"
        THEN DesRaise("ValueError")
        ELSE [kind |-> "value",
              val  |-> [status |-> stat % 16, id |-> id, address |-> addr,
                        capacity |-> cap, packet |-> k.val,
                        security |-> s.val, baudrate |-> b.val],
              err  |-> ""]

\* A slip that would leave out the baud-rate check of lines 343-345.
deserialize_no_baud_check(data) ==
    IF Len(data) < LENGTH THEN DesNone
    ELSE LET stat == from_bytes(Slice(data, 0, 2))
             id   == from_bytes(Slice(data, 2, 4))
             cap  == from_bytes(Slice(data, 4, 6))
             sec  == from_bytes(Slice(data, 6, 8))
             addr == from_bytes(Slice(data, 8, 12))
             pack == from_bytes(Slice(data, 12, 14))
             baud == from_bytes(Slice(data, 14, 16))
         IN  IF ~has_value(FpSecurityValues, sec) THEN DesNone
             ELSE IF ~has_value(FpPacketSizeValues, pack) THEN DesNone
             ELSE BuildParameters(stat, id, cap, sec, addr, pack, baud)

deserialize(data) ==
    IF Len(data) < LENGTH THEN DesNone
    ELSE LET stat == from_bytes(Slice(data, 0, 2))
             id   == from_bytes(Slice(data, 2, 4))
             cap  == from_bytes(Slice(data, 4, 6))
             sec  == from_bytes(Slice(data, 6, 8))
             addr == from_bytes(Slice(data, 8, 12))
             pack == from_bytes(Slice(data, 12, 14))
             baud == from_bytes(Slice(data, 14, 16))
         IN  IF ~has_value(FpSecurityValues, sec) THEN DesNone
             ELSE IF ~has_value(FpPacketSizeValues, pack) THEN DesNone
             ELSE IF ~has_value(FpBaudrateValues, baud) THEN DesNone
             ELSE BuildParameters(stat, id, cap, sec, addr, pack, baud)

(***************************************************************************)
(* SpecParams: a parameters value is serialized and the bytes parsed back, *)
(* or a received buffer is parsed.  TLC's integers are 32 bits wide, so    *)
(* the addresses of the model stay below 2^31.                             *)
(***************************************************************************)
ParamSet ==
    [status   : {0, 9, 15, 16, 65535},
     id       : {0, 513},
     address  : {0, 1, 65535, 65536, 2147483647},
     capacity : {0, 1000},
     packet   : FpPacketSizeValues,
     security : FpSecurityValues,
     baudrate : FpBaudrateValues]

StatusBytes   == {<<0, 0>>, <<0, 15>>, <<0, 16>>, <<255, 255>>}
IdBytes       == {<<0, 0>>, <<2, 1>>}
CapacityBytes == {<<0, 0>>, <<3, 232>>}
SecurityBytes == {<<0, 0>>, <<0, 1>>, <<0, 5>>, <<0, 6>>, <<1, 1>>, <<255, 255>>}
AddressBytes  == {<<0, 0, 0, 0>>, <<0, 1, 226, 64>>, <<127, 255, 255, 255>>}
PacketBytes   == {<<0, 0>>, <<0, 3>>, <<0, 4>>, <<1, 0>>, <<0, 32>>}
BaudBytes     == {<<0, 0>>, <<0, 1>>, <<0, 12>>, <<0, 13>>, <<1, 1>>, <<37, 128>>}
BufferLengths == {0, 10, 15, 16, 17}

Buffers ==
    { SubSeq(st \o id \o cap \o sec \o addr \o pk \o bd \o <<170>>, 1, n) :
        st \in StatusBytes, id \in IdBytes, cap \in CapacityBytes,
        sec \in SecurityBytes, addr \in AddressBytes, pk \in PacketBytes,
        bd \in BaudBytes, n \in BufferLengths }

InitParams ==
    /\ \/ sp_pc = "params" /\ sp_p \in ParamSet /\ sp_data = <<>>
       \/ sp_pc = "buffer" /\ sp_p = NoParams /\ sp_data \in Buffers
    /\ sp_ser = NoSer
    /\ sp_des = NoDes
    /\ IdleConv /\ IdleEnroll /\ IdleError

Serialize ==
    /\ sp_pc = "params"
    /\ sp_ser' = serialize(sp_p)
    /\ sp_data' = sp_ser'.bytes
    /\ sp_pc' = IF sp_ser'.kind = "ok" THEN "serialized" ELSE "raised"
    /\ UNCHANGED <<sp_p, sp_des, convVars, enrVars, errVars>>

Deserialize ==
    /\ sp_pc \in {"buffer", "serialized"}
    /\ sp_des' = deserialize(sp_data)
    /\ sp_pc' = "deserialized"
    /\ UNCHANGED <<sp_p, sp_data, sp_ser, convVars, enrVars, errVars>>

NextParams == Serialize \/ Deserialize

SpecParams == InitParams /\ [][NextParams]_vars

(***************************************************************************)
(* Claims about the system parameters block.                               *)
(***************************************************************************)

\* C1: for every parameters value p with recognized security, packet and
\* baudrate codes, 16-bit status, id and capacity and a 32-bit address,
\* deserialize(serialize(p)) returns a value equal to p, field by field.
C1_ParamsRoundTrip ==
    /\ sp_pc # "raised"
    /\ (sp_pc = "deserialized" /\ sp_ser.kind = "ok")
        => (sp_des.kind = "value" /\ sp_des.val = sp_p)

\* C2: serialize returns exactly 16 bytes, big-endian, in the order status
\* (0-1), id (2-3), capacity (4-5), security (6-7), address (8-11), packet
\* size (12-13), baud rate (14-15), for every address in 0..0xFFFFFFFF.
C2_SerializeLayout ==
    sp_ser.kind # "none" =>
        /\ sp_ser.kind = "ok"
        /\ Len(sp_ser.bytes) = 16
        /\ sp_ser.bytes =
            << sp_p.status \div 256, sp_p.status % 256,
               sp_p.id \div 256, sp_p.id % 256,
               sp_p.capacity \div 256, sp_p.capacity % 256,
               sp_p.security \div 256, sp_p.security % 256,
               (sp_p.address \div 16777216) % 256,
               (sp_p.address \div 65536) % 256,
               (sp_p.address \div 256) % 256,
               sp_p.address % 256,
               sp_p.packet \div 256, sp_p.packet % 256,
               sp_p.baudrate \div 256, sp_p.baudrate % 256 >>

\* The fields of a received buffer of at least 16 bytes, read off the bytes.
RxStatus   == sp_data[1] * 256 + sp_data[2]
RxSecurity == sp_data[7] * 256 + sp_data[8]
RxPacket   == sp_data[13] * 256 + sp_data[14]
RxBaud     == sp_data[15] * 256 + sp_data[16]

\* C5: deserialize never raises; it returns None for every input shorter
\* than 16 bytes and for every input whose security, packet-size or baud
\* field is not a recognized code; every non-None result has security in
\* 1..5, packet code in 0..3, baud code in 1..12 and status equal to the
\* low nibble of the received status field.
C5_DeserializeTotal ==
    sp_pc = "deserialized" =>
        /\ sp_des.kind \in {"None", "value"}
        /\ Len(sp_data) < 16 => sp_des.kind = "None"
        /\ (Len(sp_data) >= 16
              /\ (RxSecurity \notin 1 .. 5 \/ RxPacket \notin 0 .. 3
                    \/ RxBaud \notin 1 .. 12))
            => sp_des.kind = "None"
        /\ sp_des.kind = "value" =>
              /\ sp_des.val.security \in 1 .. 5
              /\ sp_des.val.packet \in 0 .. 3
              /\ sp_des.val.baudrate \in 1 .. 12
              /\ sp_des.val.status \in 0 .. 15
              /\ sp_des.val.status = RxStatus % 16

C5_Witness ==
    /\ sp_pc = "deserialized"
    /\ sp_ser.kind = "none"
    /\ Len(sp_data) >= 16
    /\ RxStatus = 65535
    /\ sp_des.kind = "value"
    /\ sp_des.val.status = 15
    /\ sp_des.val.baudrate = 12

(***************************************************************************)
(* SpecEnroll: example(sdk) of examples/ex_enroll.py.  Each action is one  *)
(* sdk call with the statements that follow it up to the next call; the    *)
(* response of the sensor is the action's input.                           *)
(***************************************************************************)
MaxMatchFails == 4
MaxIndex == 2

BUFFER_1 == 1
BUFFER_2 == 2
NoBuffer == 0

MatchIndexes == {-1} \cup (0 .. MaxIndex)

Call(op, b) == [op |-> op, buffer |-> b]
Line(msg, n) == [msg |-> msg, index |-> n]
Response(s, i, v) == [succ |-> s, index |-> i, value |-> v]

InitEnroll ==
    /\ pc = "password_verify"
    /\ tries = 0
    /\ buffer = BUFFER_1
    /\ recv = NoRecv
    /\ ops = <<>>
    /\ info = ""
    /\ printed = <<>>
    /\ convFails = 0
    /\ matchFails = 0
    /\ IdleConv /\ IdleParams /\ IdleError

\* Lines 32-34.
PasswordVerify ==
    /\ pc = "password_verify"
    /\ \E s \in BOOLEAN :
        /\ recv' = Response(s, 0, 0)
        /\ IF s
           THEN pc' = "backlight_init" /\ info' = info
           ELSE pc' = "except"
                /\ info' = "Error when trying to communicate with the device"
    /\ ops' = Append(ops, Call("password_verify", NoBuffer))
    /\ UNCHANGED <<tries, buffer, printed, convFails, matchFails,
                   convVars, parVars, errVars>>

\* Lines 35-39.
BacklightInit ==
    /\ pc = "backlight_init"
    /\ ops' = Append(ops, Call("backlight", NoBuffer))
    /\ tries' = 0
    /\ buffer' = BUFFER_1
    /\ pc' = "wait_release"
    /\ UNCHANGED <<recv, info, printed, convFails, matchFails,
                   convVars, parVars, errVars>>

\* Line 42: wait_finger_action(press=False) returns.
WaitFingerRelease ==
    /\ pc = "wait_release"
    /\ pc' = "wait_press"
    /\ UNCHANGED <<tries, buffer, recv, ops, info, printed, convFails,
                   matchFails, convVars, parVars, errVars>>

\* Line 43: wait_finger_action(press=True) returns.
WaitFingerPress ==
    /\ pc = "wait_press"
    /\ pc' = "image_capture"
    /\ UNCHANGED <<tries, buffer, recv, ops, info, printed, convFails,
                   matchFails, convVars, parVars, errVars>>

\* Line 44: the response is not kept.
ImageCapture ==
    /\ pc = "image_capture"
    /\ ops' = Append(ops, Call("image_capture", NoBuffer))
    /\ pc' = "backlight_off"
    /\ UNCHANGED <<tries, buffer, recv, info, printed, convFails,
                   matchFails, convVars, parVars, errVars>>

\* Line 45.
BacklightOff ==
    /\ pc = "backlight_off"
    /\ ops' = Append(ops, Call("backlight", NoBuffer))
    /\ pc' = "image_convert"
    /\ UNCHANGED <<tries, buffer, recv, info, printed, convFails,
                   matchFails, convVars, parVars, errVars>>

\* Lines 48-58.
ImageConvert ==
    /\ pc = "image_convert"
    /\ ops' = Append(ops, Call("image_convert", buffer))
    /\ \E s \in BOOLEAN :
        /\ recv' = Response(s, 0, 0)
        /\ IF ~s
           THEN /\ tries' = tries + 1
                /\ convFails' = convFails + 1
                /\ IF tries' >= 3
                   THEN /\ pc' = "except"
                        /\ info' = "Unable to get a good image of the fingerprint"
                        /\ printed' = printed
                   ELSE /\ pc' = "wait_release"
                        /\ info' = info
                        /\ printed' = Append(printed,
                              Line("Error when converting fingerprint image", -1))
           ELSE /\ tries' = 0
                /\ convFails' = convFails
                /\ info' = info
                /\ printed' = printed
                /\ pc' = IF buffer = BUFFER_1 THEN "match_1_n"
                         ELSE IF buffer = BUFFER_2 THEN "match_1_1"
                         ELSE "wait_release"
    /\ UNCHANGED <<buffer, matchFails, convVars, parVars, errVars>>

\* Lines 60-63.
Match1N ==
    /\ pc = "match_1_n"
    /\ ops' = Append(ops, Call("match_1_n", buffer))
    /\ \E s \in BOOLEAN, i \in MatchIndexes :
        /\ recv' = Response(s, i, 0)
        /\ IF i # -1
           THEN /\ pc' = "except"
                /\ info' = "Finger already registered"
                /\ buffer' = buffer
           ELSE /\ pc' = "wait_release"
                /\ info' = info
                /\ buffer' = BUFFER_2
    /\ UNCHANGED <<tries, printed, convFails, matchFails,
                   convVars, parVars, errVars>>

\* Lines 67-74.
Match11 ==
    /\ pc = "match_1_1"
    /\ ops' = Append(ops, Call("match_1_1", NoBuffer))
    /\ \E s \in BOOLEAN :
        /\ ~s => matchFails < MaxMatchFails
        /\ recv' = Response(s, 0, 0)
        /\ IF ~s
           THEN /\ tries' = tries + 1
                /\ matchFails' = matchFails + 1
                /\ IF tries' >= 3
                   THEN /\ pc' = "except"
                        /\ info' = "Fingers didnt match several times"
                        /\ printed' = printed
                   ELSE /\ pc' = "wait_release"
                        /\ info' = info
                        /\ printed' = Append(printed,
                              Line("Fingers dont match", -1))
           ELSE /\ tries' = tries
                /\ matchFails' = matchFails
                /\ info' = info
                /\ printed' = printed
                /\ pc' = "template_create"
    /\ UNCHANGED <<buffer, convFails, convVars, parVars, errVars>>

\* Lines 77-79.
TemplateCreate ==
    /\ pc = "template_create"
    /\ ops' = Append(ops, Call("template_create", NoBuffer))
    /\ \E s \in BOOLEAN :
        /\ recv' = Response(s, 0, 0)
        /\ IF s
           THEN pc' = "template_save" /\ info' = info
           ELSE pc' = "except" /\ info' = "Template creation failed"
    /\ UNCHANGED <<tries, buffer, printed, convFails, matchFails,
                   convVars, parVars, errVars>>

\* Lines 82-85, the save issued with buffer b.
TemplateSaveWith(b) ==
    /\ pc = "template_save"
    /\ ops' = Append(ops, Call("template_save", b))
    /\ \E s \in BOOLEAN, v \in 0 .. MaxIndex :
        /\ recv' = Response(s, 0, v)
        /\ IF s
           THEN /\ pc' = "stop"
                /\ info' = info
                /\ printed' = Append(printed,
                      Line("Fingerprint stored successfully on index", recv'.value))
           ELSE /\ pc' = "except"
                /\ info' = "Template store failed"
                /\ printed' = printed
    /\ UNCHANGED <<tries, buffer, convFails, matchFails,
                   convVars, parVars, errVars>>

\* A slip that would save the first buffer whatever the loop left in buffer.
TemplateSave_first_buffer == TemplateSaveWith(BUFFER_1)

TemplateSave == TemplateSaveWith(buffer)

\* Lines 87-89.
Except ==
    /\ pc = "except"
    /\ printed' = Append(printed, Line(info, -1))
    /\ pc' = "stop"
    /\ UNCHANGED <<tries, buffer, recv, ops, info, convFails, matchFails,
                   convVars, parVars, errVars>>

\* Lines 91-93.
Stop ==
    /\ pc = "stop"
    /\ ops' = Append(ops, Call("stop", NoBuffer))
    /\ pc' = "done"
    /\ UNCHANGED <<tries, buffer, recv, info, printed, convFails, matchFails,
                   convVars, parVars, errVars>>

NextEnroll ==
    \/ PasswordVerify \/ BacklightInit \/ WaitFingerRelease \/ WaitFingerPress
    \/ ImageCapture \/ BacklightOff \/ ImageConvert \/ Match1N \/ Match11
    \/ TemplateCreate \/ TemplateSave \/ Except \/ Stop

SpecEnroll == InitEnroll /\ [][NextEnroll]_vars

(***************************************************************************)
(* Claims about the enrollment workflow.                                   *)
(***************************************************************************)
RECURSIVE SelectOps(_, _)
SelectOps(seq, names) ==
    IF seq = <<>> THEN <<>>
    ELSE IF Head(seq).op \in names
         THEN <<Head(seq)>> \o SelectOps(Tail(seq), names)
         ELSE SelectOps(Tail(seq), names)

EnrollOps == {"image_capture", "image_convert", "match_1_n", "match_1_1",
              "template_create", "template_save"}

\* The workflow ended with no exception, no conversion failed and no 1:1
\* match failed: every operation succeeded and the 1:N match returned -1.
HappyEnd == pc = "done" /\ info = "" /\ convFails = 0 /\ matchFails = 0

HappyOps(saveBuffer) ==
    << Call("image_capture", NoBuffer), Call("image_convert", 1),
       Call("match_1_n", 1),
       Call("image_capture", NoBuffer), Call("image_convert", 2),
       Call("match_1_1", NoBuffer),
       Call("template_create", NoBuffer), Call("template_save", saveBuffer) >>

\* C8 as stated: on the happy path the operations are issued in the order
\* capture, convert(Buffer1), 1:N match, capture, convert(Buffer2), 1:1
\* match, template create, template save, the save with Buffer1, and the
\* workflow reports the index carried by the save response.
C8_HappyPathSavesBuffer1 ==
    HappyEnd =>
        /\ SelectOps(ops, EnrollOps) = HappyOps(1)
        /\ printed = <<Line("Fingerprint stored successfully on index", recv.value)>>

\* C8 amended: the same order, the save issued with Buffer2 (the value the
\* loop leaves in buffer), and the index of the save response reported.
C8_HappyPathSavesBuffer2 ==
    HappyEnd =>
        /\ SelectOps(ops, EnrollOps) = HappyOps(2)
        /\ printed = <<Line("Fingerprint stored successfully on index", recv.value)>>

C8_Witness ==
    /\ HappyEnd
    /\ recv.succ /\ recv.value = MaxIndex
    /\ ops[Len(ops) - 1] = Call("template_save", 2)
    /\ ops[Len(ops)] = Call("stop", NoBuffer)

\* C9: if the 1:1 match keeps failing while every capture and conversion
\* succeeds, the workflow aborts with 'Fingers didnt match several times'
\* after three failed matches and goes on to sdk.stop().
C9_AbortsAfterThreeMismatches ==
    (convFails = 0 /\ matchFails >= 3)
    => (pc \in {"except", "stop", "done"}
        /\ info = "Fingers didnt match several times")

(***************************************************************************)
(* FpError: the names of the class in source order with their values, and  *)
(* the lookup of a received status byte (the first name defined with a     *)
(* value is the member, a later one with the same value is an alias).      *)
(***************************************************************************)
FpError ==
    << <<"SUCCESS", 0>>, <<"HANDSHAKE_SUCCESS", 85>>,
       <<"ERROR_INVALID_REGISTER", 26>>, <<"ERROR_INVALID_CONFIGURATION", 27>>,
       <<"ERROR_NOTEPAD_INVALID_PAGE", 28>>,
       <<"ERROR_PACKET_TRANSMISSION", 1>>, <<"ERROR_PACKET_RECEPTION", 14>>,
       <<"ERROR_PACKET_FAULTY", 254>>,
       <<"ERROR_FINGER_NOT_IN_SENSOR", 2>>, <<"ERROR_FINGER_ENROLL_FAILED", 3>>,
       <<"ERROR_FINGER_MISMATCH", 8>>, <<"ERROR_FINGER_NOT_FOUND", 9>>,
       <<"ERROR_IMAGE_MESSY", 6>>, <<"ERROR_IMAGE_INVALID", 21>>,
       <<"ERROR_IMAGE_FEW_FEATURE_POINTS", 7>>, <<"ERROR_IMAGE_DOWNLOAD", 15>>,
       <<"ERROR_CHARACTERISTICS_MISMATCH", 10>>,
       <<"ERROR_TEMPLATE_INVALID_INDEX", 11>>, <<"ERROR_TEMPLATE_LOAD", 12>>,
       <<"ERROR_TEMPLATE_UPLOAD", 253>>, <<"ERROR_TEMPLATE_DOWNLOAD", 13>>,
       <<"ERROR_TEMPLATE_DELETE", 16>>, <<"ERROR_TEMPLATE_EMPTY", 17>>,
       <<"ERROR_FLASH", 24>>, <<"ERROR_DATABASE_FULL", 254>>,
       <<"ERROR_TIMEOUT", 255>>, <<"ERROR_UNDEFINED", 25>>,
       <<"ERROR_COMMUNICATION_PORT", 29>>,
       <<"ERROR_ADDRESS", 32>>, <<"ERROR_PASSWORD", 19>>,
       <<"ERROR_PASSWORD_VERIFY", 33>> >>

\* Every name the class body defines with this value.
FpErrorNames(code) ==
    { FpError[i][1] : i \in { j \in DOMAIN FpError : FpError[j][2] = code } }

\* FpError(code): the member of this value, "" where the call raises.
FpErrorMember(code) ==
    IF \E i \in DOMAIN FpError : FpError[i][2] = code
    THEN LET first == CHOOSE i \in DOMAIN FpError :
                        /\ FpError[i][2] = code
                        /\ \A j \in DOMAIN FpError :
                              FpError[j][2] = code => i <= j
         IN  FpError[first][1]
    ELSE ""

\* The values of a status byte.
StatusBytesRange == 0 .. 255

InitError ==
    /\ er_code \in StatusBytesRange
    /\ er_pc = "received"
    /\ er_member = ""
    /\ er_names = {}
    /\ IdleConv /\ IdleParams /\ IdleEnroll

DecodeStatus ==
    /\ er_pc = "received"
    /\ er_member' = FpErrorMember(er_code)
    /\ er_names' = FpErrorNames(er_code)
    /\ er_pc' = "decoded"
    /\ UNCHANGED <<er_code, convVars, parVars, enrVars>>

NextError == DecodeStatus

SpecError == InitError /\ [][NextError]_vars

\* C10: every non-success status code denotes exactly one error: no two
\* distinct FpError names share the same numeric value.
C10_ErrorCodesUnique ==
    (er_pc = "decoded" /\ er_member \notin {"SUCCESS", "HANDSHAKE_SUCCESS"})
    => Cardinality(er_names) <= 1

====
